---- MODULE Spec2Model ----
(***************************************************************************)
(* Model of src/src/main.js: calculateSimpleRevenue,                       *)
(* calculateBonusByProfit and analyzeSalesData.                            *)
(*                                                                         *)
(* Numbers.  A JavaScript number is modelled as a record                   *)
(* [nan, val]: either NaN or a fixed-point value val counted in units of   *)
(* 0.0001 (so 10.00 is 100000).  The prices used as inputs are whole       *)
(* cents, which keeps the percentage arithmetic of the two strategies      *)
(* exact.  Binary floating-point error and Infinity are not modelled.      *)
(*                                                                         *)
(* Identifiers.  Seller ids and SKUs are non-empty, non-numeric strings in *)
(* the program; the model names them by positive integers.  0 names an id  *)
(* or SKU that is in no catalogue.  The name field of a seller is left     *)
(* out: nothing is computed from it.                                       *)
(***************************************************************************)
EXTENDS Integers, Sequences, FiniteSets, TLC

VARIABLES data, options, pc, outcome, sellerStats, sellerIndex, productIndex,
          recIdx, bonusIdx, revCalls, bonusCalls, result,
          bpc, bIndex, bTotal, bSeller, bResult

vars == <<data, options, pc, outcome, sellerStats, sellerIndex, productIndex,
          recIdx, bonusIdx, revCalls, bonusCalls, result,
          bpc, bIndex, bTotal, bSeller, bResult>>

analysisVars == <<data, options, pc, outcome, sellerStats, sellerIndex,
                  productIndex, recIdx, bonusIdx, revCalls, bonusCalls, result>>

bonusVars == <<bpc, bIndex, bTotal, bSeller, bResult>>

(***************************************************************************)
(* Bounds of the explored inputs.                                          *)
(***************************************************************************)
MaxSellers == 3
MaxRecords == 2
WideSkus == 11
MaxTotal == 5

(***************************************************************************)
(* JavaScript numbers.                                                     *)
(***************************************************************************)
NaN == [nan |-> TRUE, val |-> 0]

Num(v) == [nan |-> FALSE, val |-> v]

NumAdd(a, b) == IF a.nan \/ b.nan THEN NaN ELSE Num(a.val + b.val)

NumSub(a, b) == IF a.nan \/ b.nan THEN NaN ELSE Num(a.val - b.val)

\* x * (p / 100) for a percentage p
NumPercent(a, p) == IF a.nan THEN NaN ELSE Num((a.val * p) \div 100)

isNaN(a) == a.nan

\* +x.toFixed(2): the nearest multiple of 0.01, a tie going away from zero
toFixed2(a) ==
    LET m == IF a.val < 0 THEN 0 - a.val ELSE a.val
        r == ((m + 50) \div 100) * 100
    IN  Num(IF a.val < 0 THEN 0 - r ELSE r)

(***************************************************************************)
(* The two reference strategies.                                           *)
(***************************************************************************)
calculateSimpleRevenue(purchase, product) ==
    \* discountCoefficient = 1 - discount / 100, kept here in hundredths
    LET discountCoefficient == NumSub(Num(100), purchase.discount)
    IN  IF discountCoefficient.nan THEN NaN
        ELSE Num((purchase.sale_price * purchase.quantity
                    * discountCoefficient.val) \div 100)

calculateBonusByProfit(index, total, seller) ==
    IF index = 0 THEN NumPercent(seller.profit, 15)
    ELSE IF index = 1 \/ index = 2 THEN NumPercent(seller.profit, 10)
    ELSE IF index = total - 1 THEN Num(0)
    ELSE NumPercent(seller.profit, 5)

(***************************************************************************)
(* Inputs.  An input field is either an array or something that is not an  *)
(* array (undefined, a string, ...).                                       *)
(***************************************************************************)
Arr(s) == [isArray |-> TRUE, elems |-> s]

NotArray == [isArray |-> FALSE, elems |-> <<>>]

NullData == [isNull |-> TRUE, sellers |-> NotArray, products |-> NotArray,
             purchase_records |-> NotArray]

Data(s, p, r) == [isNull |-> FALSE, sellers |-> s, products |-> p,
                  purchase_records |-> r]

\* sellers 1..k in this order; ids are interchangeable, so the order of the
\* ids loses no case
Sellers(k) == [i \in 1..k |-> [id |-> i]]

Catalogue == << [sku |-> 1, purchase_price |-> 100000],
                [sku |-> 2, purchase_price |-> 40000] >>

\* line items: a sale at a profit of 10.00, a sale at a loss of 1.50, a line
\* without a discount field (its revenue is NaN), a line whose SKU is unknown
Gain == [sku |-> 1, quantity |-> 2, sale_price |-> 150000, discount |-> Num(0)]

Loss == [sku |-> 2, quantity |-> 1, sale_price |-> 50000, discount |-> Num(50)]

NoDiscount == [sku |-> 1, quantity |-> 1, sale_price |-> 150000, discount |-> NaN]

UnknownSku == [sku |-> 0, quantity |-> 3, sale_price |-> 150000,
               discount |-> Num(0)]

\* what a purchase record can hold: its total_amount and its line items
RecordShapes ==
    { [total_amount |-> Num(100000), items |-> <<>>],
      [total_amount |-> Num(100000), items |-> <<Gain>>],
      [total_amount |-> Num(255000), items |-> <<Loss>>],
      [total_amount |-> Num(100000), items |-> <<NoDiscount>>],
      [total_amount |-> Num(255000), items |-> <<Loss, Gain>>],
      [total_amount |-> Num(100000), items |-> <<UnknownSku, Gain>>] }

RecordPool(k) ==
    { [seller_id |-> s, total_amount |-> sh.total_amount, items |-> sh.items] :
        s \in 0..k, sh \in RecordShapes }

\* sellers 1..k, the catalogue, and the purchase records rs
GeneralData(k, rs) == Data(Arr(Sellers(k)), Arr(Catalogue), Arr(rs))

OneRecord == << [seller_id |-> 1, total_amount |-> Num(100000),
                 items |-> <<>>] >>

MalformedData ==
    { NullData,
      Data(NotArray, Arr(Catalogue), Arr(OneRecord)),
      Data(Arr(Sellers(1)), NotArray, Arr(OneRecord)),
      Data(Arr(Sellers(1)), Arr(Catalogue), NotArray),
      Data(Arr(Sellers(1)), Arr(<<>>), Arr(OneRecord)),
      Data(Arr(<<>>), Arr(<<>>), Arr(<<>>)) }

\* one seller selling every SKU of a catalogue of WideSkus products in one
\* record, with quantities 1..3 in a pattern that depends on v
WideData(v) ==
    Data(Arr(Sellers(1)),
         Arr([i \in 1..WideSkus |-> [sku |-> i, purchase_price |-> 100000]]),
         Arr(<< [seller_id |-> 1, total_amount |-> Num(255000),
                 items |-> [i \in 1..WideSkus |->
                              [sku |-> i, quantity |-> ((i * v) % 3) + 1,
                               sale_price |-> 150000, discount |-> Num(0)]]]
              >>))

\* options is not supplied at all, or is an object in which each strategy is
\* either absent or the reference strategy of this file
OptionInputs ==
    { [supplied |-> FALSE, calculateRevenue |-> FALSE,
       calculateBonus |-> FALSE] }
    \cup { [supplied |-> TRUE, calculateRevenue |-> r, calculateBonus |-> b] :
             r \in BOOLEAN, b \in BOOLEAN }

calculateRevenue(item, product) == calculateSimpleRevenue(item, product)

calculateBonus(index, total, seller) ==
    calculateBonusByProfit(index, total, seller)

NoIndex == [x \in {} |-> 0]

Init ==
    /\ \/ \E k \in 0..MaxSellers, n \in 0..MaxRecords :
             \E rs \in [1..n -> RecordPool(k)] : data = GeneralData(k, rs)
       \/ data \in MalformedData
       \/ \E v \in 1..WideSkus : data = WideData(v)
    /\ options \in OptionInputs
    /\ pc = "validate"
    /\ outcome = "running"
    /\ sellerStats = <<>>
    /\ sellerIndex = NoIndex
    /\ productIndex = NoIndex
    /\ recIdx = 1
    /\ bonusIdx = 0
    /\ revCalls = <<>>
    /\ bonusCalls = <<>>
    /\ result = <<>>
    /\ bpc = "idle"
    /\ bIndex = 0
    /\ bTotal = 1
    /\ bSeller = [profit |-> Num(0)]
    /\ bResult = Num(0)

(***************************************************************************)
(* analyzeSalesData, lines 42-57: the two checks.                          *)
(***************************************************************************)
\* variant: the emptiness of purchase_records is not checked
IsInvalidInputNoRecordsCheck(d) ==
    \/ d.isNull
    \/ ~d.sellers.isArray
    \/ ~d.products.isArray
    \/ ~d.purchase_records.isArray
    \/ Len(d.sellers.elems) = 0
    \/ Len(d.products.elems) = 0

IsInvalidInput(d) ==
    \/ d.isNull
    \/ ~d.sellers.isArray
    \/ ~d.products.isArray
    \/ ~d.purchase_records.isArray
    \/ Len(d.sellers.elems) = 0
    \/ Len(d.products.elems) = 0
    \/ Len(d.purchase_records.elems) = 0

Validate ==
    /\ pc = "validate"
    /\ IF IsInvalidInput(data)
       THEN pc' = "done" /\ outcome' = "InvalidInput"
       ELSE pc' = "options" /\ outcome' = outcome
    /\ UNCHANGED <<data, options, sellerStats, sellerIndex, productIndex,
                   recIdx, bonusIdx, revCalls, bonusCalls, result>>
    /\ UNCHANGED bonusVars

\* destructuring an options that was not supplied throws a TypeError
StrategyCheck(o) ==
    IF ~o.supplied THEN "TypeError"
    ELSE IF ~o.calculateRevenue \/ ~o.calculateBonus THEN "MissingStrategy"
    ELSE "running"

ResolveStrategies ==
    /\ pc = "options"
    /\ outcome' = StrategyCheck(options)
    /\ pc' = IF outcome' = "running" THEN "prepare" ELSE "done"
    /\ UNCHANGED <<data, options, sellerStats, sellerIndex, productIndex,
                   recIdx, bonusIdx, revCalls, bonusCalls, result>>
    /\ UNCHANGED bonusVars

(***************************************************************************)
(* Lines 60-75: one SellerStat per seller, and the two lookup indices.     *)
(* A SellerStat is an object shared by sellerStats and sellerIndex; the    *)
(* model keeps the objects in sellerStats and lets sellerIndex hold the    *)
(* position of the object an id refers to.  bonus is undefined until it is *)
(* assigned (isNaN(undefined) is true, so NaN stands for it) and           *)
(* top_products is not an array until it is assigned.                      *)
(***************************************************************************)
MakeStat(seller) ==
    [id |-> seller.id, revenue |-> Num(0), profit |-> Num(0),
     sales_count |-> 0, products_sold |-> <<>>,
     bonus |-> NaN, top_products |-> NotArray]

MakeStats(sellers) == [i \in 1..Len(sellers) |-> MakeStat(sellers[i])]

\* Object.fromEntries: of two entries with one key, the later one stays
LastWith(seq, field, key) ==
    CHOOSE i \in DOMAIN seq :
        /\ seq[i][field] = key
        /\ \A j \in DOMAIN seq : seq[j][field] = key => j <= i

SellerIndexOf(stats) ==
    [id \in { stats[i].id : i \in DOMAIN stats } |-> LastWith(stats, "id", id)]

ProductIndexOf(products) ==
    [sku \in { products[i].sku : i \in DOMAIN products } |->
        products[LastWith(products, "sku", sku)]]

Prepare ==
    /\ pc = "prepare"
    /\ sellerStats' = MakeStats(data.sellers.elems)
    /\ sellerIndex' = SellerIndexOf(sellerStats')
    /\ productIndex' = ProductIndexOf(data.products.elems)
    /\ pc' = "fold"
    /\ UNCHANGED <<data, options, outcome, recIdx, bonusIdx, revCalls,
                   bonusCalls, result>>
    /\ UNCHANGED bonusVars

(***************************************************************************)
(* Lines 78-98: the fold of one purchase record.  products_sold is an      *)
(* object with string keys: a sequence of [sku, quantity] in the order the *)
(* keys were first set.  acc carries the SellerStat of the record and the  *)
(* log of the calls of the revenue strategy.                               *)
(***************************************************************************)
HasKey(sold, sku) == \E i \in DOMAIN sold : sold[i].sku = sku

AddSold(sold, sku, quantity) ==
    LET init == IF HasKey(sold, sku) THEN sold
                ELSE Append(sold, [sku |-> sku, quantity |-> 0])
    IN  [i \in DOMAIN init |->
            IF init[i].sku = sku
            THEN [init[i] EXCEPT !.quantity = @ + quantity]
            ELSE init[i]]

\* variant: the cost of the goods is not subtracted
FoldItemNoCost(acc, item, pIndex, r, j) ==
    IF item.sku \notin DOMAIN pIndex THEN acc
    ELSE LET product == pIndex[item.sku]
             revenue == calculateRevenue(item, product)
         IN  [seller |-> [acc.seller EXCEPT
                            !.profit = NumAdd(@, revenue),
                            !.products_sold =
                                AddSold(@, item.sku, item.quantity)],
              calls |-> Append(acc.calls, [record |-> r, item |-> j])]

\* variant: a sale is counted for every line item
FoldItemCountingSales(acc, item, pIndex, r, j) ==
    IF item.sku \notin DOMAIN pIndex THEN acc
    ELSE LET product == pIndex[item.sku]
             cost == Num(product.purchase_price * item.quantity)
             revenue == calculateRevenue(item, product)
             profit == NumSub(revenue, cost)
         IN  [seller |-> [acc.seller EXCEPT
                            !.sales_count = @ + 1,
                            !.profit = NumAdd(@, profit),
                            !.products_sold =
                                AddSold(@, item.sku, item.quantity)],
              calls |-> Append(acc.calls, [record |-> r, item |-> j])]

FoldItem(acc, item, pIndex, r, j) ==
    IF item.sku \notin DOMAIN pIndex THEN acc
    ELSE LET product == pIndex[item.sku]
             cost == Num(product.purchase_price * item.quantity)
             revenue == calculateRevenue(item, product)
             profit == NumSub(revenue, cost)
         IN  [seller |-> [acc.seller EXCEPT
                            !.profit = NumAdd(@, profit),
                            !.products_sold =
                                AddSold(@, item.sku, item.quantity)],
              calls |-> Append(acc.calls, [record |-> r, item |-> j])]

RECURSIVE FoldItems(_, _, _, _, _)
FoldItems(acc, items, pIndex, r, j) ==
    IF j > Len(items) THEN acc
    ELSE FoldItems(FoldItem(acc, items[j], pIndex, r, j),
                   items, pIndex, r, j + 1)

\* variant: a record of an unknown seller is booked on the first seller
FoldRecordOnFirstSeller(stats, calls, sIndex, pIndex, record, r) ==
    LET i == IF record.seller_id \in DOMAIN sIndex
             THEN sIndex[record.seller_id] ELSE 1
        seller == [stats[i] EXCEPT
                     !.sales_count = @ + 1,
                     !.revenue = NumAdd(@, record.total_amount)]
        acc == FoldItems([seller |-> seller, calls |-> calls],
                         record.items, pIndex, r, 1)
    IN  [stats |-> [stats EXCEPT ![i] = acc.seller], calls |-> acc.calls]

\* the SellerStats and the call log after the callback of record number r
FoldRecord(stats, calls, sIndex, pIndex, record, r) ==
    IF record.seller_id \notin DOMAIN sIndex
    THEN [stats |-> stats, calls |-> calls]
    ELSE LET i == sIndex[record.seller_id]
             seller == [stats[i] EXCEPT
                          !.sales_count = @ + 1,
                          !.revenue = NumAdd(@, record.total_amount)]
             acc == FoldItems([seller |-> seller, calls |-> calls],
                              record.items, pIndex, r, 1)
         IN  [stats |-> [stats EXCEPT ![i] = acc.seller],
              calls |-> acc.calls]

FoldNext ==
    /\ pc = "fold"
    /\ recIdx <= Len(data.purchase_records.elems)
    /\ LET f == FoldRecord(sellerStats, revCalls, sellerIndex, productIndex,
                           data.purchase_records.elems[recIdx], recIdx)
       IN  /\ sellerStats' = f.stats
           /\ revCalls' = f.calls
    /\ recIdx' = recIdx + 1
    /\ UNCHANGED <<data, options, pc, outcome, sellerIndex, productIndex,
                   bonusIdx, bonusCalls, result>>
    /\ UNCHANGED bonusVars

(***************************************************************************)
(* Line 101: sellerStats.sort((a, b) => b.profit - a.profit).              *)
(* Array.prototype.sort is a stable comparison sort that reads a NaN from  *)
(* the comparator as 0.  Its result is a reordering in which every two     *)
(* neighbours are in the order the comparator gives them, and in the order *)
(* of the input where the comparator gives 0.  Without a NaN profit there  *)
(* is exactly one such reordering; with one, the comparator is not         *)
(* consistent, the order depends on the comparisons the engine happens to  *)
(* make, and every such reordering is a possible result.                   *)
(***************************************************************************)
CompareProfit(a, b) ==
    LET v == NumSub(b.profit, a.profit) IN IF v.nan THEN 0 ELSE v.val

Reorderings(n) ==
    { q \in [1..n -> 1..n] : \A i, j \in 1..n : i # j => q[i] # q[j] }

SortOutcomes(stats) ==
    { [i \in DOMAIN stats |-> stats[q[i]]] :
        q \in { r \in Reorderings(Len(stats)) :
                  \A i \in 1..(Len(stats) - 1) :
                      LET c == CompareProfit(stats[r[i]], stats[r[i + 1]])
                      IN  c < 0 \/ (c = 0 /\ r[i] < r[i + 1]) } }

Sort ==
    /\ pc = "fold"
    /\ recIdx > Len(data.purchase_records.elems)
    /\ sellerStats' \in SortOutcomes(sellerStats)
    /\ sellerIndex' = SellerIndexOf(sellerStats')
    /\ pc' = "bonus"
    /\ UNCHANGED <<data, options, outcome, productIndex, recIdx, bonusIdx,
                   revCalls, bonusCalls, result>>
    /\ UNCHANGED bonusVars

(***************************************************************************)
(* Lines 104-110: the bonus and the top products of the seller at index    *)
(* bonusIdx.                                                               *)
(***************************************************************************)
CompareQuantity(a, b) == b.quantity - a.quantity

RECURSIVE InsertByQuantity(_, _)
InsertByQuantity(sorted, x) ==
    IF sorted = <<>> THEN <<x>>
    ELSE IF CompareQuantity(Head(sorted), x) > 0 THEN <<x>> \o sorted
    ELSE <<Head(sorted)>> \o InsertByQuantity(Tail(sorted), x)

RECURSIVE SortByQuantity(_)
SortByQuantity(entries) ==
    IF entries = <<>> THEN <<>>
    ELSE InsertByQuantity(SortByQuantity(SubSeq(entries, 1, Len(entries) - 1)),
                          entries[Len(entries)])

TopN == 10

Slice(seq, n) == SubSeq(seq, 1, IF Len(seq) < n THEN Len(seq) ELSE n)

\* variant: the list is not cut
TopProductsUncut(sold) == SortByQuantity(sold)

TopProducts(sold) == Slice(SortByQuantity(sold), TopN)

\* variant: the rank handed to the bonus strategy is counted from 1
AssignBonusFromOne ==
    /\ pc = "bonus"
    /\ bonusIdx < Len(sellerStats)
    /\ LET seller == sellerStats[bonusIdx + 1]
       IN  /\ sellerStats' = [sellerStats EXCEPT ![bonusIdx + 1] =
                  [seller EXCEPT
                     !.bonus = calculateBonus(bonusIdx + 1, Len(sellerStats),
                                              seller),
                     !.top_products = Arr(TopProducts(seller.products_sold))]]
           /\ bonusCalls' = Append(bonusCalls,
                  [index |-> bonusIdx + 1, total |-> Len(sellerStats),
                   seller |-> seller])
    /\ bonusIdx' = bonusIdx + 1
    /\ UNCHANGED <<data, options, pc, outcome, sellerIndex, productIndex,
                   recIdx, revCalls, result>>
    /\ UNCHANGED bonusVars

AssignBonus ==
    /\ pc = "bonus"
    /\ bonusIdx < Len(sellerStats)
    /\ LET seller == sellerStats[bonusIdx + 1]
       IN  /\ sellerStats' = [sellerStats EXCEPT ![bonusIdx + 1] =
                  [seller EXCEPT
                     !.bonus = calculateBonus(bonusIdx, Len(sellerStats),
                                              seller),
                     !.top_products = Arr(TopProducts(seller.products_sold))]]
           /\ bonusCalls' = Append(bonusCalls,
                  [index |-> bonusIdx, total |-> Len(sellerStats),
                   seller |-> seller])
    /\ bonusIdx' = bonusIdx + 1
    /\ UNCHANGED <<data, options, pc, outcome, sellerIndex, productIndex,
                   recIdx, revCalls, result>>
    /\ UNCHANGED bonusVars

(***************************************************************************)
(* Lines 113-129: the rows of the report, in the order of sellerStats.     *)
(***************************************************************************)
Normalize(x) == IF isNaN(x) THEN Num(0) ELSE toFixed2(x)

FormatRow(seller) ==
    [seller_id |-> seller.id,
     revenue |-> Normalize(seller.revenue),
     profit |-> Normalize(seller.profit),
     sales_count |-> seller.sales_count,
     top_products |-> IF seller.top_products.isArray
                      THEN seller.top_products.elems ELSE <<>>,
     bonus |-> Normalize(seller.bonus)]

\* variant: sellers without a sale get no row
FormatRowsWithSales(stats) ==
    LET active == SelectSeq(stats, LAMBDA t : t.sales_count > 0)
    IN  [i \in DOMAIN active |-> FormatRow(active[i])]

FormatRows(stats) == [i \in DOMAIN stats |-> FormatRow(stats[i])]

Format ==
    /\ pc = "bonus"
    /\ bonusIdx = Len(sellerStats)
    /\ result' = FormatRows(sellerStats)
    /\ outcome' = "returned"
    /\ pc' = "done"
    /\ UNCHANGED <<data, options, sellerStats, sellerIndex, productIndex,
                   recIdx, bonusIdx, revCalls, bonusCalls>>
    /\ UNCHANGED bonusVars

Next ==
    \/ Validate
    \/ ResolveStrategies
    \/ Prepare
    \/ FoldNext
    \/ Sort
    \/ AssignBonus
    \/ Format

Spec == Init /\ [][Next]_vars

(***************************************************************************)
(* calculateBonusByProfit on its own: every rank of every ranking of up to *)
(* MaxTotal sellers, for a few profits.                                    *)
(***************************************************************************)
ProfitPool == { Num(100000), Num(85000), Num(0), Num(0 - 15000), NaN }

InitBonus ==
    /\ data = NullData
    /\ options = [supplied |-> FALSE, calculateRevenue |-> FALSE,
                  calculateBonus |-> FALSE]
    /\ pc = "idle"
    /\ outcome = "running"
    /\ sellerStats = <<>>
    /\ sellerIndex = NoIndex
    /\ productIndex = NoIndex
    /\ recIdx = 1
    /\ bonusIdx = 0
    /\ revCalls = <<>>
    /\ bonusCalls = <<>>
    /\ result = <<>>
    /\ bpc = "call"
    /\ bTotal \in 1..MaxTotal
    /\ bIndex \in 0..(bTotal - 1)
    /\ bSeller \in { [profit |-> p] : p \in ProfitPool }
    /\ bResult = Num(0)

CallBonus ==
    /\ bpc = "call"
    /\ bResult' = calculateBonusByProfit(bIndex, bTotal, bSeller)
    /\ bpc' = "returned"
    /\ UNCHANGED <<bIndex, bTotal, bSeller>>
    /\ UNCHANGED analysisVars

NextBonus == CallBonus

SpecBonus == InitBonus /\ [][NextBonus]_vars

(***************************************************************************)
(* What the input says, computed from data alone.                          *)
(***************************************************************************)
Returned == pc = "done" /\ outcome = "returned"

Records == data.purchase_records.elems

InputIds == { data.sellers.elems[i].id : i \in DOMAIN data.sellers.elems }

InputSkus == { data.products.elems[i].sku : i \in DOMAIN data.products.elems }

ProductOf(sku) ==
    CHOOSE q \in { data.products.elems[i] : i \in DOMAIN data.products.elems } :
        q.sku = sku

RECURSIVE Concat(_)
Concat(seqs) == IF seqs = <<>> THEN <<>> ELSE Head(seqs) \o Concat(Tail(seqs))

RECURSIVE SumInts(_)
SumInts(seq) == IF seq = <<>> THEN 0 ELSE Head(seq) + SumInts(Tail(seq))

RECURSIVE SumNums(_)
SumNums(seq) ==
    IF seq = <<>> THEN Num(0) ELSE NumAdd(Head(seq), SumNums(Tail(seq)))

\* every line item of every record, in input order
Lines ==
    Concat([r \in DOMAIN Records |->
              [j \in DOMAIN Records[r].items |->
                 [seller_id |-> Records[r].seller_id,
                  item |-> Records[r].items[j], record |-> r, index |-> j]]])

\* the line items of seller id whose SKU is a known product
KnownLines(id) ==
    SelectSeq(Lines, LAMBDA l : l.seller_id = id /\ l.item.sku \in InputSkus)

ExpectedProfit(id) ==
    LET L == KnownLines(id)
    IN  SumNums([k \in DOMAIN L |->
                   LET product == ProductOf(L[k].item.sku)
                   IN  NumSub(calculateSimpleRevenue(L[k].item, product),
                              Num(product.purchase_price
                                    * L[k].item.quantity))])

ExpectedRevenue(id) ==
    LET R == SelectSeq(Records, LAMBDA rec : rec.seller_id = id)
    IN  SumNums([k \in DOMAIN R |-> R[k].total_amount])

ExpectedSales(id) == Cardinality({ r \in DOMAIN Records : Records[r].seller_id = id })

ExpectedQuantity(id, sku) ==
    LET L == SelectSeq(KnownLines(id), LAMBDA l : l.item.sku = sku)
    IN  SumInts([k \in DOMAIN L |-> L[k].item.quantity])

ExpectedCalls ==
    LET L == SelectSeq(Lines, LAMBDA l : /\ l.seller_id \in InputIds
                                        /\ l.item.sku \in InputSkus)
    IN  [k \in DOMAIN L |-> [record |-> L[k].record, item |-> L[k].index]]

\* position of seller id in data.sellers
InputPosition(id) ==
    CHOOSE i \in DOMAIN data.sellers.elems : data.sellers.elems[i].id = id

InputIsBad ==
    \/ data.isNull
    \/ ~data.sellers.isArray \/ ~data.products.isArray
    \/ ~data.purchase_records.isArray
    \/ data.sellers.elems = <<>> \/ data.products.elems = <<>>
    \/ data.purchase_records.elems = <<>>

StrategyIsMissing ==
    options.supplied /\ (~options.calculateRevenue \/ ~options.calculateBonus)

NothingAggregated ==
    sellerStats = <<>> /\ revCalls = <<>> /\ bonusCalls = <<>> /\ result = <<>>

\* the fields of a SellerStat that the fold writes
Core(t) == [id |-> t.id, revenue |-> t.revenue, profit |-> t.profit,
            sales_count |-> t.sales_count, products_sold |-> t.products_sold]

\* every record is folded and the sort has not run yet
FoldDone == pc = "fold" /\ recIdx > Len(Records)

\* the sort has run
SortDone == pc \in {"bonus", "done"} /\ sellerStats # <<>>

(***************************************************************************)
(* C1: for 0 <= index < total, calculateBonusByProfit returns 0 at the     *)
(* last rank (also when total is 1), and otherwise 15% of the profit at    *)
(* index 0, 10% at index 1 or 2 and 5% at any other index.                 *)
(***************************************************************************)
C1_LastRankWins ==
    bpc = "returned" =>
        bResult = IF bIndex = bTotal - 1 THEN Num(0)
                  ELSE IF bIndex = 0 THEN NumPercent(bSeller.profit, 15)
                  ELSE IF bIndex \in {1, 2} THEN NumPercent(bSeller.profit, 10)
                  ELSE NumPercent(bSeller.profit, 5)

(***************************************************************************)
(* C2: a bad input ends in the invalid-input error, a good input with a    *)
(* strategy absent from options in the missing-strategy error; a bad input *)
(* with bad options ends in the invalid-input error; in all these runs no  *)
(* SellerStat is ever created and no strategy is ever called.              *)
(***************************************************************************)
C2_FailFast ==
    /\ (pc = "done" /\ InputIsBad) => outcome = "InvalidInput"
    /\ (pc = "done" /\ ~InputIsBad /\ StrategyIsMissing)
          => outcome = "MissingStrategy"
    /\ (InputIsBad \/ StrategyIsMissing) => NothingAggregated
    /\ outcome \in {"InvalidInput", "MissingStrategy"} => NothingAggregated

C2_Witness ==
    /\ pc = "done" /\ outcome = "InvalidInput"
    /\ data.sellers.elems # <<>> /\ data.products.elems # <<>>
    /\ data.purchase_records.isArray /\ data.purchase_records.elems = <<>>
    /\ options.supplied /\ options.calculateRevenue /\ ~options.calculateBonus

(***************************************************************************)
(* C3: every call ends in the invalid-input error, the missing-strategy    *)
(* error or a returned report, whatever data and options are.              *)
(***************************************************************************)
C3_ThreeOutcomes ==
    pc = "done" => outcome \in {"InvalidInput", "MissingStrategy", "returned"}

C5_DescendingStable ==
    Returned =>
        /\ \A i \in 1..(Len(result) - 1) :
              result[i].profit.val >= result[i + 1].profit.val
        /\ \A i, j \in DOMAIN sellerStats :
              (i < j /\ sellerStats[i].profit = sellerStats[j].profit)
                => InputPosition(sellerStats[i].id)
                     < InputPosition(sellerStats[j].id)

(***************************************************************************)
(* C6: the callback of a record whose seller_id is no seller's id changes  *)
(* no SellerStat, calls the revenue strategy for none of its items and     *)
(* does not throw.                                                         *)
(***************************************************************************)
C6_UnknownSellerSkipped ==
    [][(/\ pc = "fold"
        /\ recIdx <= Len(Records)
        /\ Records[recIdx].seller_id \notin InputIds)
          => (/\ sellerStats' = sellerStats
              /\ revCalls' = revCalls
              /\ outcome' = "running"
              /\ recIdx' = recIdx + 1)]_vars

C6_Witness ==
    /\ pc = "fold"
    /\ recIdx > 1
    /\ Records[recIdx - 1].seller_id \notin InputIds
    /\ \E j \in DOMAIN Records[recIdx - 1].items :
          Records[recIdx - 1].items[j].sku \in InputSkus

(***************************************************************************)
(* C7: the sales_count of the rows add up to the number of records whose   *)
(* seller_id is a seller's id, and each seller's sales_count is the number *)
(* of the records with that seller's id, whatever their items are.         *)
(***************************************************************************)
C7_SalesCount ==
    Returned =>
        /\ SumInts([i \in DOMAIN result |-> result[i].sales_count])
             = Cardinality({ r \in DOMAIN Records :
                               Records[r].seller_id \in InputIds })
        /\ \A i \in DOMAIN result :
              result[i].sales_count = ExpectedSales(result[i].seller_id)

C7_Witness ==
    /\ Returned
    /\ \E r \in DOMAIN Records : Records[r].seller_id \notin InputIds
    /\ \E r \in DOMAIN Records :
          /\ Records[r].seller_id \in InputIds
          /\ Records[r].items # <<>>
    /\ \E i \in DOMAIN result : result[i].sales_count > 0

(***************************************************************************)
(* C8: in every row top_products has at most 10 entries, in descending     *)
(* order of quantity, no SKU twice, and the quantity of an entry is the    *)
(* total quantity of that SKU over the seller's line items whose SKU is a  *)
(* known product.                                                          *)
(***************************************************************************)
C8_TopProducts ==
    Returned =>
        \A i \in DOMAIN result :
            LET top == result[i].top_products
            IN  /\ Len(top) <= 10
                /\ \A k \in 1..(Len(top) - 1) :
                      top[k].quantity >= top[k + 1].quantity
                /\ \A k, l \in DOMAIN top : k # l => top[k].sku # top[l].sku
                /\ \A k \in DOMAIN top :
                      /\ top[k].sku \in InputSkus
                      /\ top[k].quantity =
                           ExpectedQuantity(result[i].seller_id, top[k].sku)

C8_Witness ==
    /\ Returned
    /\ \E i \in DOMAIN result :
          /\ Len(result[i].top_products) = 10
          /\ Len(sellerStats[i].products_sold) > 10
          /\ sellerStats[i].products_sold[1] # result[i].top_products[1]

(***************************************************************************)
(* C9: once every record is folded, a seller's profit is the sum of        *)
(* calculateRevenue(item, product) - purchase_price * quantity over the    *)
(* seller's line items with a known SKU, its revenue is the sum of the     *)
(* total_amount of its records and its sales_count their number; a line    *)
(* item with an unknown SKU causes no call of the revenue strategy and no  *)
(* entry in products_sold.                                                 *)
(***************************************************************************)
C9_FoldTotals ==
    FoldDone =>
        /\ \A i \in DOMAIN sellerStats :
              LET t == sellerStats[i]
              IN  /\ t.profit = ExpectedProfit(t.id)
                  /\ t.revenue = ExpectedRevenue(t.id)
                  /\ t.sales_count = ExpectedSales(t.id)
                  /\ \A k \in DOMAIN t.products_sold :
                        /\ t.products_sold[k].sku \in InputSkus
                        /\ t.products_sold[k].quantity =
                             ExpectedQuantity(t.id, t.products_sold[k].sku)
        /\ revCalls = ExpectedCalls

C9_Witness ==
    /\ FoldDone
    /\ \E i \in DOMAIN sellerStats :
          /\ sellerStats[i].sales_count = 2
          /\ ~isNaN(sellerStats[i].profit)
          /\ sellerStats[i].profit.val # 0
          /\ Len(KnownLines(sellerStats[i].id)) = 1
          /\ \E k \in DOMAIN Lines :
                /\ Lines[k].seller_id = sellerStats[i].id
                /\ Lines[k].item.sku \notin InputSkus

(***************************************************************************)
(* C10: the bonus strategy is called once per seller, only after the last  *)
(* record is folded and the sort is done, with the seller's index in the   *)
(* report, the number of sellers and a SellerStat whose profit is final;   *)
(* from the first call on, no SellerStat's revenue, profit, sales_count or *)
(* products_sold changes.                                                  *)
(***************************************************************************)
BonusCallsInOrder ==
    /\ bonusCalls # <<>> => (SortDone /\ recIdx > Len(Records))
    /\ Len(bonusCalls) = bonusIdx
    /\ \A k \in DOMAIN bonusCalls :
          /\ bonusCalls[k].index = k - 1
          /\ bonusCalls[k].total = Len(data.sellers.elems)
          /\ Core(bonusCalls[k].seller) = Core(sellerStats[k])
          /\ bonusCalls[k].seller.profit
               = ExpectedProfit(bonusCalls[k].seller.id)
    /\ Returned =>
          /\ Len(bonusCalls) = Len(data.sellers.elems)
          /\ \A k \in DOMAIN bonusCalls :
                bonusCalls[k].seller.id = result[k].seller_id
          /\ \A k, l \in DOMAIN bonusCalls :
                k # l => bonusCalls[k].seller.id # bonusCalls[l].seller.id

FrozenAfterFirstCall ==
    bonusCalls # <<>> =>
        /\ Len(sellerStats') = Len(sellerStats)
        /\ \A k \in DOMAIN sellerStats :
              Core(sellerStats'[k]) = Core(sellerStats[k])

C10_BonusAfterRanking == []BonusCallsInOrder /\ [][FrozenAfterFirstCall]_vars

C10_Witness ==
    /\ Returned
    /\ Len(bonusCalls) >= 3
    /\ result[1].seller_id # data.sellers.elems[1].id
    /\ \A k \in DOMAIN sellerStats : ~isNaN(sellerStats[k].profit)

====
